---- MODULE Spec2Model ----
(***************************************************************************)
(* Model of pkg/controller/tidb_control.go:                                *)
(*   - realTiKVGroupControl.UpdateTiKVGroup: the optimistic status updater *)
(*     running against a versioned store, a possibly stale lister cache    *)
(*     and concurrent writers (specification Spec, FairSpec);              *)
(*   - defaultTiDBControl.GetHealth, GetInfo and GetSettings with          *)
(*     getHTTPClient, getBodyOK and getBaseURL (specification ClientSpec). *)
(***************************************************************************)
EXTENDS Integers, Sequences, FiniteSets, TLC

\* ---------------------------------------------------------------- bounds
\* highest ordinal an address is resolved for
MaxOrdinal == 11
\* highest resource version a concurrent writer may start a write from
MaxRV == 3
\* number of distinct spec documents
NumSpecs == 2
\* number of distinct status documents
NumStatuses == 2
\* cap on the recorded write attempts of one invocation
MaxLog == 7

\* ------------------------------------------------------ program constants
\* retry.DefaultRetry.Steps
DefaultRetrySteps == 5
\* getBodyOK: first status code that counts as an error
ErrorStatusThreshold == 400
\* http.StatusOK
StatusOK == 200

Specs == 1..NumSpecs
Statuses == 1..NumStatuses
Addr == {"arg", "cache", "work"}

VARIABLES
    \* --- versioned resource store and lister cache
    store,      \* the authoritative TiKVGroup: [rv, spec, status]
    heap,       \* objects in memory: the caller's object ("arg"), the object
                \* held by the lister cache ("cache"), the updater's copy ("work")
    \* --- UpdateTiKVGroup
    pc,         \* "idle", "update", "lookup", "retry", "done"
    tg,         \* address of the working object (the tg variable)
    newStatus,  \* argument newStatus
    oldStatus,  \* argument oldStatus
    status,     \* the status snapshot (local variable status)
    updateTg,   \* object returned by the last Update call
    updateErr,  \* error returned by the last Update call
    updated,    \* object last obtained from the lister
    steps,      \* remaining steps of the backoff
    retErr,     \* error returned to the caller
    log,        \* outcome of every Update call, in order
    nGets,      \* number of lister lookups
    listErr,    \* error of the last lister lookup
    \* --- defaultTiDBControl
    call,       \* the call in progress or just returned, with its inputs
    ret,        \* its results: (bool, error) or (value, error)
    sent,       \* HTTP requests issued by the call
    bodyOpen,   \* TRUE when the call left a response body open
    lookups,    \* secret-store lookups made by the call
    \* --- getBaseURL
    testURL,    \* the testURL field of defaultTiDBControl
    urlTLS,     \* TLS posture of the clusters addresses are resolved for
    urlA,       \* the last address resolved, with the inputs it was resolved from
    urlB,       \* the address resolved before it
    \* --- FakeTiDBControl
    healthInfo, \* the healthInfo field: nil, or a map from pod name to bool
    fakeCall,   \* the last GetHealth call of the fake: cluster name and ordinal
    fakeRet     \* its results (bool, error)

updVars == <<store, heap, pc, tg, newStatus, oldStatus, status, updateTg,
             updateErr, updated, steps, retErr, log, nGets, listErr>>
cliVars == <<call, ret, sent, bodyOpen, lookups>>
urlVars == <<testURL, urlTLS, urlA, urlB>>
fakeVars == <<healthInfo, fakeCall, fakeRet>>
vars == <<store, heap, pc, tg, newStatus, oldStatus, status, updateTg,
          updateErr, updated, steps, retErr, log, nGets, listErr,
          call, ret, sent, bodyOpen, lookups,
          testURL, urlTLS, urlA, urlB, healthInfo, fakeCall, fakeRet>>

\* ------------------------------------------------------------ values
Obj(rv, sp, st) == [rv |-> rv, spec |-> sp, status |-> st]
NoObj == Obj(0, 0, 0)

Err(kind, k) == [kind |-> kind, attempt |-> k]
Nil == Err("nil", 0)

\* errors.IsConflict, the retriable predicate of retry.RetryOnConflict
RetryOnAnyError(e) == e # Nil
IsConflict(e) == e.kind = "conflict"

\* the store's resource-version check of Update
NeverStale(o) == FALSE
IsStale(o) == o.rv # store.rv

\* status := tg.Status.DeepCopy()
SnapshotOldStatus(obj, newS, oldS) == oldS
SnapshotStatus(obj, newS, oldS) == obj.status

\* updated.DeepCopy(): the copy is a new object
AliasAddr(p) == p
CopyAddr(p) == "work"

\* tg = updated.DeepCopy(); tg.Status = *status
RefetchedKeepSpec(upd, st) == [heap[tg] EXCEPT !.rv = upd.rv, !.status = st]
RefetchedStatusOnly(upd, st) == [heap[tg] EXCEPT !.status = st]
Refetched(upd, st) == [upd EXCEPT !.status = st]

\* the closure returns right after a successful Update, before any lookup
AlwaysLookup(e) == "lookup"
AfterUpdate(e) == IF e = Nil THEN "retry" ELSE "lookup"

\* backoff.Step(): one step of the budget is used
SameSteps(s) == s
NextSteps(s) == s - 1

\* the closure returns updateErr, whatever the lister lookup gave
ReturnLookupErr(upErr, lErr) == IF lErr # Nil THEN lErr ELSE upErr
ClosureErr(upErr, lErr) == upErr

\* RetryOnConflict: on exhaustion the wait timeout becomes the last conflict
TimeoutErr(e) == Err("timeout", 0)
SwallowErr(e) == Nil
ExhaustedErr(e) == e


\* ------------------------------------------------------ defaultTiDBControl
CErr(kind, code) == [kind |-> kind, code |-> code]
CNil == CErr("nil", 0)

\* status codes a member may answer with
Codes == {200, 204, 302, 399, 400, 404, 503}
\* outcomes of the HTTP round trip
Transports == {"ok", "refused", "timeout"}
\* contents of the secret store for the cluster's client secret
Secrets ==
    [exists : {FALSE}, hasCert : {FALSE}, hasKey : {FALSE}, pairValid : {FALSE}]
    \cup [exists : {TRUE}, hasCert : BOOLEAN, hasKey : BOOLEAN, pairValid : BOOLEAN]
\* response bodies: not JSON at all, or a JSON value with the top-level kind
\* and, for an object, the kind of its is_owner member
Bodies ==
    {[valid |-> FALSE, top |-> "object", field |-> "absent"],
     [valid |-> TRUE, top |-> "null", field |-> "absent"],
     [valid |-> TRUE, top |-> "array", field |-> "absent"]}
    \cup [valid : {TRUE}, top : {"object"},
          field : {"absent", "true", "false", "string"}]
\* behaviour of the probed member
Remotes == [transport : Transports, code : Codes, readOK : BOOLEAN, body : Bodies]
\* ordinals of the probed replicas
Ordinals == {0, 1}

\* getHTTPClient: the client, or the error that prevented building it
getHTTPClientCertOnly(tls, sec) ==
    IF ~tls THEN [client |-> "plain", err |-> CNil, gets |-> 0]
    ELSE IF ~sec.exists
         THEN [client |-> "none", err |-> CErr("secret", 0), gets |-> 1]
    ELSE IF ~sec.hasCert
         THEN [client |-> "none", err |-> CErr("missing", 0), gets |-> 1]
    ELSE IF ~sec.hasKey \/ ~sec.pairValid
         THEN [client |-> "none", err |-> CErr("keypair", 0), gets |-> 1]
    ELSE [client |-> "tls", err |-> CNil, gets |-> 1]
getHTTPClient(tls, sec) ==
    IF ~tls THEN [client |-> "plain", err |-> CNil, gets |-> 0]
    ELSE IF ~sec.exists
         THEN [client |-> "none", err |-> CErr("secret", 0), gets |-> 1]
    ELSE IF ~sec.hasCert \/ ~sec.hasKey
         THEN [client |-> "none", err |-> CErr("missing", 0), gets |-> 1]
    ELSE IF ~sec.pairValid
         THEN [client |-> "none", err |-> CErr("keypair", 0), gets |-> 1]
    ELSE [client |-> "tls", err |-> CNil, gets |-> 1]

\* getBodyOK: res.StatusCode >= 400
IsErrorStatusExclusive(code) == code > ErrorStatusThreshold
IsErrorStatus(code) == code >= ErrorStatusThreshold

\* getBodyOK: one GET; the body is closed only on the path past the status check
getBodyOK(rem) ==
    IF rem.transport # "ok"
    THEN [read |-> FALSE, err |-> CErr("transport", 0), sent |-> 1, open |-> FALSE]
    ELSE IF IsErrorStatus(rem.code)
    THEN [read |-> FALSE, err |-> CErr("status", rem.code), sent |-> 1, open |-> TRUE]
    ELSE IF ~rem.readOK
    THEN [read |-> FALSE, err |-> CErr("read", 0), sent |-> 1, open |-> FALSE]
    ELSE [read |-> TRUE, err |-> CNil, sent |-> 1, open |-> FALSE]

\* GetHealth: the two return statements
GetHealthRetBodyErr(cliErr, bodyErr) ==
    IF cliErr # CNil THEN [ok |-> FALSE, err |-> cliErr]
    ELSE [ok |-> bodyErr = CNil, err |-> bodyErr]
GetHealthRet(cliErr, bodyErr) ==
    IF cliErr # CNil THEN [ok |-> FALSE, err |-> cliErr]
    ELSE [ok |-> bodyErr = CNil, err |-> CNil]


\* -------------------------------------------------------------- getBaseURL
Digit(d) ==
    CASE d = 0 -> "0" [] d = 1 -> "1" [] d = 2 -> "2" [] d = 3 -> "3"
      [] d = 4 -> "4" [] d = 5 -> "5" [] d = 6 -> "6" [] d = 7 -> "7"
      [] d = 8 -> "8" [] d = 9 -> "9"

\* the %d verb of fmt.Sprintf, for an ordinal >= 0
RECURSIVE FormatInt(_)
FormatInt(n) ==
    IF n < 10 THEN Digit(n) ELSE FormatInt(n \div 10) \o Digit(n % 10)

\* TiDBMemberName, TiDBPeerMemberName and tc.Scheme()
TiDBMemberName(tcName) == tcName \o "-tidb"
TiDBPeerMemberName(tcName) == tcName \o "-tidb-peer"
Scheme(tls) == IF tls THEN "https" ELSE "http"

\* getBaseURL: the test URL when set, else the address of the replica
getBaseURLNoOrdinal(override, tls, tcName, ns, ordinal) ==
    IF override # "" THEN override
    ELSE Scheme(tls) \o "://" \o TiDBMemberName(tcName)
         \o "." \o TiDBPeerMemberName(tcName) \o "." \o ns \o ":10080"
getBaseURL(override, tls, tcName, ns, ordinal) ==
    IF override # "" THEN override
    ELSE Scheme(tls) \o "://" \o TiDBMemberName(tcName) \o "-" \o FormatInt(ordinal)
         \o "." \o TiDBPeerMemberName(tcName) \o "." \o ns \o ":10080"

\* cluster names addresses are resolved for, and the namespace
URLNames == {"demo", "a", "a1", "a-tidb-1"}
URLOrdinals == 0..MaxOrdinal
URLNamespace == "default"
\* the URL a unit test injects
TestServerURL == "http://127.0.0.1:10080"
NoURL == [set |-> FALSE, tls |-> FALSE, name |-> "", ordinal |-> 0, url |-> ""]

\* ---------------------------------------------------------- FakeTiDBControl
\* clusters and ordinals the fake is asked about
FakeNames == {"demo", "db"}
FakeOrdinals == {0, 1}
\* pod names a fixture map may hold
FakePods == {"demo-tidb-0", "demo-tidb-1", "db-tidb-0"}
\* a map[string]bool: nil, or the pod names it holds and those mapped to true
NilMap == [isNil |-> TRUE, keys |-> {}, trues |-> {}]
HealthMaps ==
    {NilMap} \cup
    {m \in [isNil : {FALSE}, keys : SUBSET FakePods, trues : SUBSET FakePods] :
        m.trues \subseteq m.keys}

\* FakeTiDBControl.GetHealth: the fixture of the pod, false when there is none
FakeHealthMissingIsError(m, pod) ==
    IF m.isNil THEN [ok |-> FALSE, err |-> CNil]
    ELSE IF pod \in m.keys THEN [ok |-> pod \in m.trues, err |-> CNil]
    ELSE [ok |-> FALSE, err |-> CErr("nofixture", 0)]
FakeHealth(m, pod) ==
    IF m.isNil THEN [ok |-> FALSE, err |-> CNil]
    ELSE IF pod \in m.keys THEN [ok |-> pod \in m.trues, err |-> CNil]
    ELSE [ok |-> FALSE, err |-> CNil]

\* the cluster probed by the client calls
CliName == "demo"
CliNamespace == "default"

\* -------------------------------------------------- GetInfo and GetSettings
UErr(kind, code, url) == [kind |-> kind, code |-> code, url |-> url]
NoVal == [present |-> FALSE, IsOwner |-> FALSE]
Val(isOwner) == [present |-> TRUE, IsOwner |-> isOwner]

\* json.Unmarshal(body, &info) into a struct
UnmarshalNoTypeCheck(body) ==
    IF ~body.valid THEN [val |-> NoVal, err |-> CErr("decode", 0)]
    ELSE IF body.top # "object" THEN [val |-> Val(FALSE), err |-> CNil]
    ELSE [val |-> Val(body.field = "true"), err |-> CNil]
Unmarshal(body) ==
    IF ~body.valid THEN [val |-> NoVal, err |-> CErr("decode", 0)]
    ELSE IF body.top = "null" THEN [val |-> Val(FALSE), err |-> CNil]
    ELSE IF body.top # "object" THEN [val |-> NoVal, err |-> CErr("decode", 0)]
    ELSE IF body.field = "string" THEN [val |-> NoVal, err |-> CErr("decode", 0)]
    ELSE [val |-> Val(body.field = "true"), err |-> CNil]

\* res.StatusCode != http.StatusOK
IsNotOKOnlyErrors(code) == code >= ErrorStatusThreshold
IsNotOK(code) == code # StatusOK

\* httpClient.Do(req) and what follows it in GetInfo and GetSettings; the
\* deferred close runs on every path that got a response
doAndDecode(rem, url) ==
    IF rem.transport # "ok"
    THEN [val |-> NoVal, err |-> CErr("transport", 0), sent |-> 1, open |-> FALSE]
    ELSE IF IsNotOK(rem.code)
    THEN [val |-> NoVal, err |-> UErr("status", rem.code, url), sent |-> 1,
          open |-> FALSE]
    ELSE IF ~rem.readOK
    THEN [val |-> NoVal, err |-> CErr("read", 0), sent |-> 1, open |-> FALSE]
    ELSE [val |-> Unmarshal(rem.body).val, err |-> Unmarshal(rem.body).err,
          sent |-> 1, open |-> FALSE]

\* ------------------------------------------------------------ Init
\* no call in progress
NoCall ==
    [op |-> "none", tls |-> FALSE,
     secret |-> [exists |-> FALSE, hasCert |-> FALSE,
                 hasKey |-> FALSE, pairValid |-> FALSE],
     remote |-> [transport |-> "ok", code |-> 200, readOK |-> TRUE,
                 body |-> [valid |-> TRUE, top |-> "object", field |-> "absent"]],
     ordinal |-> 0]

cliInit ==
    /\ call = NoCall
    /\ ret = [ok |-> FALSE, err |-> CNil]
    /\ sent = 0
    /\ bodyOpen = FALSE
    /\ lookups = 0

updInit ==
    /\ store = Obj(1, 1, 1)
    /\ heap = [a \in Addr |-> IF a = "cache" THEN Obj(1, 1, 1) ELSE NoObj]
    /\ pc = "idle"
    /\ tg = "arg"
    /\ newStatus = 1
    /\ oldStatus = 1
    /\ status = 1
    /\ updateTg = NoObj
    /\ updateErr = Nil
    /\ updated = NoObj
    /\ steps = DefaultRetrySteps
    /\ retErr = Nil
    /\ log = <<>>
    /\ nGets = 0
    /\ listErr = Nil

urlInit ==
    /\ testURL = ""
    /\ urlTLS = FALSE
    /\ urlA = NoURL
    /\ urlB = NoURL

fakeInit ==
    /\ healthInfo = NilMap
    /\ fakeCall = [op |-> "none", name |-> "", ordinal |-> 0]
    /\ fakeRet = [ok |-> FALSE, err |-> CNil]

Init == updInit /\ cliInit /\ urlInit /\ fakeInit

\* ------------------------------------------------- environment of the updater
\* another actor writes a new spec; the store assigns a new resource version
WriterSpec(sp) ==
    /\ store.rv < MaxRV
    /\ sp # store.spec
    /\ store' = Obj(store.rv + 1, sp, store.status)
    /\ UNCHANGED <<heap, pc, tg, newStatus, oldStatus, status, updateTg,
                   updateErr, updated, steps, retErr, log, nGets>>
    /\ UNCHANGED listErr
    /\ UNCHANGED <<cliVars, urlVars, fakeVars>>

\* another actor writes a new status
WriterStatus(st) ==
    /\ store.rv < MaxRV
    /\ st # store.status
    /\ store' = Obj(store.rv + 1, store.spec, st)
    /\ UNCHANGED <<heap, pc, tg, newStatus, oldStatus, status, updateTg,
                   updateErr, updated, steps, retErr, log, nGets>>
    /\ UNCHANGED listErr
    /\ UNCHANGED <<cliVars, urlVars, fakeVars>>

\* the informer replaces the cached object by the store's current version
InformerSync ==
    /\ heap["cache"] # store
    /\ heap' = [heap EXCEPT !["cache"] = store]
    /\ UNCHANGED <<store, pc, tg, newStatus, oldStatus, status, updateTg,
                   updateErr, updated, steps, retErr, log, nGets>>
    /\ UNCHANGED listErr
    /\ UNCHANGED <<cliVars, urlVars, fakeVars>>

\* ------------------------------------------------------- UpdateTiKVGroup
\* the caller copies the cached object, changes its status, and calls
\* UpdateTiKVGroup(tg, newStatus, oldStatus), with the status the object had
\* when it was read as oldStatus
Call(st, newS) ==
    /\ pc = "idle"
    /\ heap' = [heap EXCEPT !["arg"] = [heap["cache"] EXCEPT !.status = st]]
    /\ tg' = "arg"
    /\ newStatus' = newS
    /\ oldStatus' = heap["cache"].status
    /\ status' = SnapshotStatus(heap'["arg"], newStatus', oldStatus')
    /\ steps' = DefaultRetrySteps
    /\ pc' = "update"
    /\ UNCHANGED <<store, updateTg, updateErr, updated, retErr, log, nGets>>
    /\ UNCHANGED listErr
    /\ UNCHANGED <<cliVars, urlVars, fakeVars>>

\* Update(tg) is accepted: the store takes the whole object
UpdateOK ==
    /\ pc = "update"
    /\ Len(log) < MaxLog
    /\ ~IsStale(heap[tg])
    /\ store' = Obj(store.rv + 1, heap[tg].spec, heap[tg].status)
    /\ updateTg' = store'
    /\ updateErr' = Nil
    /\ log' = Append(log, "ok")
    /\ pc' = AfterUpdate(updateErr')
    /\ UNCHANGED <<heap, tg, newStatus, oldStatus, status, updated, steps,
                   retErr, nGets>>
    /\ UNCHANGED listErr
    /\ UNCHANGED <<cliVars, urlVars, fakeVars>>

\* Update(tg) is rejected: the object changed since tg was read
UpdateConflict ==
    /\ pc = "update"
    /\ Len(log) < MaxLog
    /\ IsStale(heap[tg])
    /\ updateTg' = NoObj
    /\ updateErr' = Err("conflict", Len(log) + 1)
    /\ log' = Append(log, "conflict")
    /\ pc' = AfterUpdate(updateErr')
    /\ UNCHANGED <<store, heap, tg, newStatus, oldStatus, status, updated,
                   steps, retErr, nGets>>
    /\ UNCHANGED listErr
    /\ UNCHANGED <<cliVars, urlVars, fakeVars>>

\* Update(tg) fails with an error that is not a conflict
UpdateFail ==
    /\ pc = "update"
    /\ Len(log) < MaxLog
    /\ updateTg' = NoObj
    /\ updateErr' = Err("other", Len(log) + 1)
    /\ log' = Append(log, "other")
    /\ pc' = AfterUpdate(updateErr')
    /\ UNCHANGED <<store, heap, tg, newStatus, oldStatus, status, updated,
                   steps, retErr, nGets>>
    /\ UNCHANGED listErr
    /\ UNCHANGED <<cliVars, urlVars, fakeVars>>

\* the lister returns the cached object: copy it, reassign the status
LookupFound ==
    /\ pc = "lookup"
    /\ nGets' = nGets + 1
    /\ listErr' = Nil
    /\ updated' = heap["cache"]
    /\ LET dst == CopyAddr("cache")
       IN /\ tg' = dst
          /\ heap' = [heap EXCEPT ![dst] = Refetched(heap["cache"], status)]
    /\ pc' = "retry"
    /\ UNCHANGED <<store, newStatus, oldStatus, status, updateTg, updateErr,
                   steps, retErr, log>>
    /\ UNCHANGED <<cliVars, urlVars, fakeVars>>

\* the lister lookup fails: the error is handled, tg stays as it is
LookupError ==
    /\ pc = "lookup"
    /\ nGets' = nGets + 1
    /\ listErr' = Err("lookup", nGets + 1)
    /\ pc' = "retry"
    /\ UNCHANGED <<store, heap, tg, newStatus, oldStatus, status, updateTg,
                   updateErr, updated, steps, retErr, log>>
    /\ UNCHANGED <<cliVars, urlVars, fakeVars>>

\* RetryOnConflict: the closure returned nil
RetrySuccess ==
    /\ pc = "retry"
    /\ updateErr = Nil
    /\ retErr' = Nil
    /\ pc' = "done"
    /\ UNCHANGED <<store, heap, tg, newStatus, oldStatus, status, updateTg,
                   updateErr, updated, steps, log, nGets>>
    /\ UNCHANGED listErr
    /\ UNCHANGED <<cliVars, urlVars, fakeVars>>

\* RetryOnConflict: a conflict with budget left, back off and run again
RetryBackoff ==
    /\ pc = "retry"
    /\ ClosureErr(updateErr, listErr) # Nil
    /\ IsConflict(ClosureErr(updateErr, listErr))
    /\ steps > 1
    /\ steps' = NextSteps(steps)
    /\ pc' = "update"
    /\ UNCHANGED <<store, heap, tg, newStatus, oldStatus, status, updateTg,
                   updateErr, updated, retErr, log, nGets>>
    /\ UNCHANGED listErr
    /\ UNCHANGED <<cliVars, urlVars, fakeVars>>

\* RetryOnConflict: a conflict on the last step, the last conflict is returned
RetryExhausted ==
    /\ pc = "retry"
    /\ ClosureErr(updateErr, listErr) # Nil
    /\ IsConflict(ClosureErr(updateErr, listErr))
    /\ steps <= 1
    /\ retErr' = ExhaustedErr(ClosureErr(updateErr, listErr))
    /\ pc' = "done"
    /\ UNCHANGED <<store, heap, tg, newStatus, oldStatus, status, updateTg,
                   updateErr, updated, steps, log, nGets>>
    /\ UNCHANGED listErr
    /\ UNCHANGED <<cliVars, urlVars, fakeVars>>

\* RetryOnConflict: any other error is returned at once
RetryAbort ==
    /\ pc = "retry"
    /\ ClosureErr(updateErr, listErr) # Nil
    /\ ~IsConflict(ClosureErr(updateErr, listErr))
    /\ retErr' = ClosureErr(updateErr, listErr)
    /\ pc' = "done"
    /\ UNCHANGED <<store, heap, tg, newStatus, oldStatus, status, updateTg,
                   updateErr, updated, steps, log, nGets>>
    /\ UNCHANGED listErr
    /\ UNCHANGED <<cliVars, urlVars, fakeVars>>

UpdaterNext ==
    \/ UpdateOK
    \/ UpdateConflict
    \/ UpdateFail
    \/ LookupFound
    \/ LookupError
    \/ RetrySuccess
    \/ RetryBackoff
    \/ RetryExhausted
    \/ RetryAbort

Next ==
    \/ \E sp \in Specs : WriterSpec(sp)
    \/ \E st \in Statuses : WriterStatus(st)
    \/ InformerSync
    \/ \E st \in Statuses, newS \in Statuses : Call(st, newS)
    \/ UpdaterNext

Spec == Init /\ [][Next]_vars

\* the updater is a sequential program: it keeps taking its next step
FairSpec == Init /\ [][Next]_vars /\ WF_vars(UpdaterNext)

\* ------------------------------------------------------------ GetHealth
\* each call is synchronous and shares no state with the previous one
GetHealth(tls, sec, rem, ord) ==
    /\ call.op = "none"
    /\ call' = [op |-> "GetHealth", tls |-> tls, secret |-> sec, remote |-> rem,
                ordinal |-> ord]
    /\ LET hc == getHTTPClient(tls, sec)
       IN /\ lookups' = hc.gets
          /\ IF hc.err # CNil
             THEN /\ ret' = GetHealthRet(hc.err, CNil)
                  /\ sent' = 0
                  /\ bodyOpen' = FALSE
             ELSE LET b == getBodyOK(rem)
                  IN /\ ret' = GetHealthRet(hc.err, b.err)
                     /\ sent' = b.sent
                     /\ bodyOpen' = b.open
    /\ UNCHANGED <<updVars, urlVars, fakeVars>>

\* GetInfo and GetSettings differ in the endpoint and the decoded type
GetJSON(op, path, tls, sec, rem, ord) ==
    /\ call.op = "none"
    /\ call' = [op |-> op, tls |-> tls, secret |-> sec, remote |-> rem,
                ordinal |-> ord]
    /\ LET hc == getHTTPClient(tls, sec)
           url == getBaseURL("", tls, CliName, CliNamespace, ord) \o path
       IN /\ lookups' = hc.gets
          /\ IF hc.err # CNil
             THEN /\ ret' = [val |-> NoVal, err |-> hc.err]
                  /\ sent' = 0
                  /\ bodyOpen' = FALSE
             ELSE LET r == doAndDecode(rem, url)
                  IN /\ ret' = [val |-> r.val, err |-> r.err]
                     /\ sent' = r.sent
                     /\ bodyOpen' = r.open
    /\ UNCHANGED <<updVars, urlVars, fakeVars>>

GetInfo(tls, sec, rem, ord) == GetJSON("GetInfo", "/info", tls, sec, rem, ord)

GetSettings(tls, sec, rem, ord) ==
    GetJSON("GetSettings", "/settings", tls, sec, rem, ord)

\* the caller has taken the results; the next call starts afresh
Return ==
    /\ call.op # "none"
    /\ call' = NoCall
    /\ ret' = [ok |-> FALSE, err |-> CNil]
    /\ sent' = 0
    /\ bodyOpen' = FALSE
    /\ lookups' = 0
    /\ UNCHANGED <<updVars, urlVars, fakeVars>>

\* a call starts only when none is in progress; its inputs are the cluster's
\* TLS posture, the secret store, the member's behaviour and the ordinal
CallGetHealth ==
    /\ call.op = "none"
    /\ \E tls \in BOOLEAN, sec \in Secrets, rem \in Remotes, ord \in Ordinals :
           GetHealth(tls, sec, rem, ord)

CallGetInfo ==
    /\ call.op = "none"
    /\ \E tls \in BOOLEAN, sec \in Secrets, rem \in Remotes, ord \in Ordinals :
           GetInfo(tls, sec, rem, ord)

CallGetSettings ==
    /\ call.op = "none"
    /\ \E tls \in BOOLEAN, sec \in Secrets, rem \in Remotes, ord \in Ordinals :
           GetSettings(tls, sec, rem, ord)

ClientNext ==
    \/ CallGetHealth
    \/ CallGetInfo
    \/ CallGetSettings
    \/ Return

ClientSpec == Init /\ [][ClientNext]_vars

\* ------------------------------------------------------------ getBaseURL
\* a unit test sets or clears the testURL field of a new control
SetTestURL(u) ==
    /\ testURL # u
    /\ testURL' = u
    /\ urlA' = NoURL
    /\ urlB' = NoURL
    /\ UNCHANGED urlTLS
    /\ UNCHANGED <<updVars, cliVars, fakeVars>>

\* the clusters change their TLS posture, and with it the scheme
SetTLS(tls) ==
    /\ urlTLS # tls
    /\ urlTLS' = tls
    /\ urlA' = NoURL
    /\ urlB' = NoURL
    /\ UNCHANGED testURL
    /\ UNCHANGED <<updVars, cliVars, fakeVars>>

\* getBaseURL(tc, ordinal) for a cluster tcName in URLNamespace
ResolveURL(tcName, ordinal) ==
    /\ urlA' = [set |-> TRUE, tls |-> urlTLS, name |-> tcName, ordinal |-> ordinal,
                url |-> getBaseURL(testURL, urlTLS, tcName, URLNamespace, ordinal)]
    /\ urlB' = urlA
    /\ UNCHANGED <<testURL, urlTLS>>
    /\ UNCHANGED <<updVars, cliVars, fakeVars>>

URLNext ==
    \/ \E u \in {"", TestServerURL} : SetTestURL(u)
    \/ \E tls \in BOOLEAN : SetTLS(tls)
    \/ \E n \in URLNames, o \in URLOrdinals : ResolveURL(n, o)

URLSpec == Init /\ [][URLNext]_vars

\* ------------------------------------------------------- FakeTiDBControl
NoFakeCall == [op |-> "none", name |-> "", ordinal |-> 0]

\* SetHealth(healthInfo): the map replaces the field
SetHealth(m) ==
    /\ healthInfo' = m
    /\ fakeCall' = NoFakeCall
    /\ fakeRet' = [ok |-> FALSE, err |-> CNil]
    /\ UNCHANGED <<updVars, cliVars, urlVars>>

\* GetHealth(tc, ordinal) of the fake
FakeGetHealth(tcName, ordinal) ==
    /\ fakeCall' = [op |-> "GetHealth", name |-> tcName, ordinal |-> ordinal]
    /\ LET podName == TiDBMemberName(tcName) \o "-" \o FormatInt(ordinal)
       IN fakeRet' = FakeHealth(healthInfo, podName)
    /\ UNCHANGED healthInfo
    /\ UNCHANGED <<updVars, cliVars, urlVars>>

FakeNext ==
    \/ \E m \in HealthMaps : SetHealth(m)
    \/ \E n \in FakeNames, o \in FakeOrdinals : FakeGetHealth(n, o)

FakeSpec == Init /\ [][FakeNext]_vars

\* ===================================================== UpdateTiKVGroup claims
AllConflicts(n) == \A j \in 1..n : log[j] = "conflict"

\* C1: a successful write of UpdateTiKVGroup leaves the store's spec as it
\* was right before the write, whatever other writers did in between.
C1_SpecNeverClobbered == [][UpdateOK => store'.spec = store.spec]_vars

\* C1 witness: the write landed although the spec had been changed by another
\* writer after the caller read its object.
C1_Witness ==
    /\ pc = "done"
    /\ retErr = Nil
    /\ updateTg # NoObj
    /\ updateTg.spec # heap["arg"].spec

\* C2: when UpdateTiKVGroup returns without error, the status persisted by
\* its successful write equals the newStatus argument.
C2_PersistedStatusIsNewStatus ==
    (pc = "done" /\ retErr = Nil) => updateTg.status = newStatus

\* C3: N conflicts followed by a success at attempt N+1 (within the budget)
\* make exactly N+1 write attempts and N lister lookups (none for N = 0),
\* and the call returns a nil error.
C3_ExactlyNPlusOneAttempts ==
    \A k \in 1..Len(log) :
        (log[k] = "ok" /\ AllConflicts(k - 1)) =>
            /\ Len(log) = k
            /\ k <= DefaultRetrySteps
            /\ nGets = k - 1
            /\ pc \in {"retry", "done"}
            /\ pc = "done" => retErr = Nil

\* C3 witness: success at the third attempt, after two conflicts.
C3_Witness ==
    /\ pc = "done"
    /\ log = <<"conflict", "conflict", "ok">>
    /\ retErr = Nil

\* C4: after a success that follows a successful re-fetch, the persisted spec
\* is the spec of the object most recently fetched from the lister.
C4_PersistedSpecIsFetchedSpec ==
    (pc = "done" /\ retErr = Nil /\ updated # NoObj) =>
        updateTg.spec = updated.spec

\* C4 witness: the persisted spec is the fetched one and differs from the
\* spec of the object originally passed in.
C4_Witness ==
    /\ pc = "done"
    /\ retErr = Nil
    /\ updated # NoObj
    /\ updateTg.spec = updated.spec
    /\ updated.spec # heap["arg"].spec

\* C5: when every write attempt conflicts, no more than DefaultRetrySteps
\* attempts are made and the conflict of the last attempt is returned.
C5_ExhaustionReturnsLastConflict ==
    /\ Len(log) <= DefaultRetrySteps
    /\ (pc = "done" /\ Len(log) >= 1 /\ AllConflicts(Len(log))) =>
           /\ Len(log) = DefaultRetrySteps
           /\ retErr = Err("conflict", Len(log))

\* C5 witness: the budget is exhausted by conflicts.
C5_Witness ==
    /\ pc = "done"
    /\ Len(log) = DefaultRetrySteps
    /\ AllConflicts(Len(log))
    /\ retErr = Err("conflict", DefaultRetrySteps)

\* C6: a write attempt that fails with a non-conflict error is the last
\* attempt, and its error is the one returned.
C6_OtherErrorNotRetried ==
    \A k \in 1..Len(log) :
        log[k] = "other" =>
            /\ Len(log) = k
            /\ pc \in {"lookup", "retry", "done"}
            /\ pc = "done" => retErr = Err("other", k)

\* C6 witness: a non-conflict error after one conflict, budget remaining.
C6_Witness ==
    /\ pc = "done"
    /\ log = <<"conflict", "other">>
    /\ steps = DefaultRetrySteps - 1
    /\ retErr = Err("other", 2)

\* C7: every invocation of UpdateTiKVGroup terminates.
C7_Terminates == (pc # "idle") ~> (pc = "done")

\* C7 witness: an invocation that ended after using its whole budget.
C7_Witness ==
    /\ pc = "done"
    /\ Len(log) = DefaultRetrySteps
    /\ retErr # Nil

\* C8: no step of UpdateTiKVGroup changes the object held by the lister cache.
C8_CacheNeverMutated == [][UpdaterNext => heap'["cache"] = heap["cache"]]_vars

\* C8 witness: after two re-fetches the working copy carries a status that
\* the cached object does not.
C8_Witness ==
    /\ nGets >= 2
    /\ updated # NoObj
    /\ tg = "work"
    /\ heap["work"].status # heap["cache"].status
    /\ heap["work"].rv = heap["cache"].rv

\* ========================================================== GetHealth claims
ClientBuilt(c) ==
    \/ ~c.tls
    \/ (c.secret.exists /\ c.secret.hasCert /\ c.secret.hasKey /\ c.secret.pairValid)

C10_HealthyIffResponseBelow400 ==
    call.op = "GetHealth" =>
        (ret.ok <=> /\ sent = 1
                    /\ call.remote.transport = "ok"
                    /\ call.remote.code < 400
                    /\ call.remote.readOK)

\* C10 witness: a 399 answer counts as healthy.
C10_Witness ==
    /\ call.op = "GetHealth"
    /\ call.remote.code = 399
    /\ ret.ok

\* ============================================== GetInfo and GetSettings claims
IsJSONCall == call.op \in {"GetInfo", "GetSettings"}
RequestURL ==
    getBaseURL("", call.tls, CliName, CliNamespace, call.ordinal)
    \o (IF call.op = "GetInfo" THEN "/info" ELSE "/settings")

\* C11: for every response whose status code is not 200, GetInfo and
\* GetSettings return no decoded value and an error that carries that status
\* code and the request URL.
C11_Non200IsStatusError ==
    (IsJSONCall /\ sent = 1 /\ call.remote.transport = "ok"
       /\ call.remote.code # 200) =>
        /\ ret.val = NoVal
        /\ ret.err.kind = "status"
        /\ ret.err.code = call.remote.code
        /\ ret.err.url = RequestURL

\* C11 witness: a 204 answer to GetInfo, healthy for GetHealth, is an error.
C11_Witness ==
    /\ call.op = "GetInfo"
    /\ call.remote.code = 204
    /\ call.remote.body.field = "true"
    /\ call.remote.readOK
    /\ ret.err = UErr("status", 204, "http://demo-tidb-1.demo-tidb-peer.default:10080/info")

\* ============================================================ TLS claims
\* C12: with TLS enabled and a client secret that lacks the certificate or
\* the private-key field, GetHealth, GetInfo and GetSettings fail with the
\* missing-credential error after one secret lookup and without any HTTP
\* request; with TLS disabled no secret lookup is made.
C12_MissingCredentialIsFatal ==
    call.op # "none" =>
        /\ (call.tls /\ call.secret.exists
              /\ (~call.secret.hasCert \/ ~call.secret.hasKey)) =>
               /\ ret.err = CErr("missing", 0)
               /\ sent = 0
               /\ lookups = 1
               /\ call.op = "GetHealth" => ~ret.ok
               /\ IsJSONCall => ret.val = NoVal
        /\ ~call.tls => lookups = 0

\* C12 witness: GetHealth on a TLS cluster whose secret has no private key,
\* while the member itself would have answered 200.
C12_Witness ==
    /\ call.op = "GetHealth"
    /\ call.tls
    /\ call.secret = [exists |-> TRUE, hasCert |-> TRUE, hasKey |-> FALSE,
                      pairValid |-> TRUE]
    /\ call.remote.transport = "ok"
    /\ call.remote.code = 200
    /\ ret = [ok |-> FALSE, err |-> CErr("missing", 0)]
    /\ sent = 0

\* C13: every call of GetHealth, GetInfo or GetSettings that received an HTTP
\* response has closed the response body when it returns, on every exit path.
C13_ResponseBodyClosed ==
    (call.op # "none" /\ sent = 1 /\ call.remote.transport = "ok") => ~bodyOpen

\* ========================================================== decoding claims
Got200 ==
    /\ IsJSONCall
    /\ sent = 1
    /\ call.remote.transport = "ok"
    /\ call.remote.code = 200

\* valid JSON of the expected shape: an object whose is_owner member, when
\* present, is a boolean
ExpectedShape(b) == b.valid /\ b.top = "object" /\ b.field # "string"

\* what the decoder accepts: the expected shape, and also the JSON null
Decodable(b) == b.valid /\ (b.top = "null" \/ (b.top = "object" /\ b.field # "string"))

\* C14 (as stated): for every response with status 200, GetInfo and
\* GetSettings return a decode error if and only if the body is not valid
\* JSON of the expected shape, and otherwise the decoded value with a nil error.
C14_DecodeErrorIffBadShape ==
    Got200 =>
        /\ (ret.err.kind = "decode") <=> ~ExpectedShape(call.remote.body)
        /\ ExpectedShape(call.remote.body) =>
               /\ ret.err = CNil
               /\ ret.val = Val(call.remote.body.field = "true")

\* C14 (amended): for every response with status 200 whose body was read in
\* full, a decode error is returned if and only if the body is not valid JSON
\* or is JSON the target cannot take (a top-level value that is neither an
\* object nor null, or an is_owner that is not a boolean); otherwise the
\* decoded value is returned with a nil error (is_owner true gives IsOwner
\* true; an object without is_owner and null give the zero value). When
\* reading the body fails, the read error is returned and no value.
C14_DecodeErrorIffUndecodable ==
    Got200 =>
        /\ ~call.remote.readOK =>
               /\ ret.err = CErr("read", 0)
               /\ ret.val = NoVal
        /\ call.remote.readOK =>
               /\ (ret.err.kind = "decode") <=> ~Decodable(call.remote.body)
               /\ ~Decodable(call.remote.body) => ret.val = NoVal
               /\ Decodable(call.remote.body) =>
                      /\ ret.err = CNil
                      /\ ret.val = Val(call.remote.body.top = "object"
                                       /\ call.remote.body.field = "true")

\* C14 witness: the body {"is_owner": true} on /info gives DBInfo{IsOwner: true}.
C14_Witness ==
    /\ call.op = "GetInfo"
    /\ Got200
    /\ call.remote.readOK
    /\ call.remote.body = [valid |-> TRUE, top |-> "object", field |-> "true"]
    /\ ret = [val |-> Val(TRUE), err |-> CNil]

\* ========================================================= getBaseURL claims
\* C15: with no test URL set, for a fixed namespace and scheme, two resolved
\* addresses are equal exactly when cluster name and ordinal are equal.
C15_BaseURLInjective ==
    (testURL = "" /\ urlA.set /\ urlB.set) =>
        (urlA.url = urlB.url <=>
            (urlA.name = urlB.name /\ urlA.ordinal = urlB.ordinal))

\* C15 witness: cluster demo, ordinal 1 and ordinal 11, TLS disabled.
C15_Witness ==
    /\ testURL = ""
    /\ urlA = [set |-> TRUE, tls |-> FALSE, name |-> "demo", ordinal |-> 1,
               url |-> "http://demo-tidb-1.demo-tidb-peer.default:10080"]
    /\ urlB = [set |-> TRUE, tls |-> FALSE, name |-> "demo", ordinal |-> 11,
               url |-> "http://demo-tidb-11.demo-tidb-peer.default:10080"]

\* ==================================================== FakeTiDBControl claims
\* C16: after any sequence of SetHealth calls, GetHealth of the fake returns
\* no error; it returns the injected boolean when the map holds the member
\* name of (cluster, ordinal), and false when the map is nil or has no entry.
C16_FakeGetHealthNeverErrors ==
    fakeCall.op = "GetHealth" =>
        LET member == fakeCall.name \o "-tidb-" \o FormatInt(fakeCall.ordinal)
        IN /\ fakeRet.err = CNil
           /\ fakeRet.ok <=> /\ ~healthInfo.isNil
                             /\ member \in healthInfo.keys
                             /\ member \in healthInfo.trues

\* C16 witness: a map that holds demo-tidb-1 as healthy and not demo-tidb-0.
C16_Witness ==
    /\ fakeCall = [op |-> "GetHealth", name |-> "demo", ordinal |-> 1]
    /\ healthInfo = [isNil |-> FALSE, keys |-> {"demo-tidb-1", "db-tidb-0"},
                     trues |-> {"demo-tidb-1"}]
    /\ fakeRet = [ok |-> TRUE, err |-> CNil]

\* ============================================ UpdateTiKVGroup claims, continued
\* C17: a failed lister lookup after a conflicting write does not abort the
\* update: its error is never returned, the loop makes its next write attempt
\* while budget remains, and every conflict is followed by a lookup.
C17_LookupFailureDoesNotAbort ==
    [][/\ (pc = "retry" /\ listErr # Nil /\ IsConflict(updateErr) /\ steps > 1
             /\ UpdaterNext) => (pc' = "update" /\ retErr' = retErr)
       /\ pc' = "done" => retErr'.kind # "lookup"
       /\ UpdateConflict => pc' = "lookup"]_vars

\* C17 witness: the lookup after the first conflict failed and the second
\* write attempt is about to be made.
C17_Witness ==
    /\ pc = "update"
    /\ log = <<"conflict">>
    /\ listErr = Err("lookup", 1)
    /\ steps = DefaultRetrySteps - 1

OkCount == Cardinality({k \in 1..Len(log) : log[k] = "ok"})

\* C19: one invocation makes at most one successful write, after which it
\* makes no further attempt; only a successful write changes the store; and
\* it returns a nil error if and only if one of its writes succeeded.
C19_AtMostOneWrite ==
    [][/\ (UpdaterNext /\ store' # store) =>
              (log' = Append(log, "ok") /\ OkCount = 0)
       /\ (UpdaterNext /\ Len(log') > Len(log)) => OkCount = 0
       /\ (UpdaterNext /\ log' = Append(log, "ok")) => store' = updateTg'
       /\ pc' = "done" => (retErr' = Nil <=> OkCount' = 1)]_vars

\* C19 witness: the second attempt succeeded and the call returned nil.
C19_Witness ==
    /\ pc = "done"
    /\ log = <<"conflict", "ok">>
    /\ OkCount = 1
    /\ retErr = Nil
    /\ store = updateTg

LastAttempt(l) == IF Len(l) = 0 THEN "none" ELSE l[Len(l)]
Attempt == pc = "update" /\ UpdaterNext

\* C20 as stated: when the working object, re-fetched after a conflict,
\* carries the store's current resource version at the next write attempt,
\* that attempt succeeds.
C20_FreshAttemptSucceeds ==
    [][(Attempt /\ LastAttempt(log) = "conflict" /\ ~IsStale(heap[tg]))
           => log' = Append(log, "ok")]_vars

\* C20: a re-fetch that returns the version the store holds leaves the
\* working object at that version, and it stays there until the next attempt
\* unless a writer changes the store; an attempt with the current version is
\* never a conflict (it succeeds or fails with another error), an attempt
\* with an older version never lands, the store changes only through an
\* attempt carrying its current version, and a call whose attempts were all
\* conflicts ends only when the budget is used up, with the last conflict.
C20_LandsOnlyWithCurrentVersion ==
    [][/\ (LookupFound /\ heap["cache"].rv = store.rv)
              => heap'[tg'].rv = store'.rv
       /\ (pc = "retry" /\ UpdaterNext /\ pc' = "update" /\ store' = store)
              => heap'[tg'] = heap[tg]
       /\ (Attempt /\ ~IsStale(heap[tg]))
              => LastAttempt(log') \in {"ok", "other"}
       /\ (Attempt /\ IsStale(heap[tg]))
              => (LastAttempt(log') \in {"conflict", "other"} /\ store' = store)
       /\ (UpdaterNext /\ store' # store)
              => (pc = "update" /\ ~IsStale(heap[tg]))
       /\ (pc' = "done" /\ pc # "done"
             /\ \A k \in 1..Len(log') : log'[k] = "conflict")
              => (Len(log') = DefaultRetrySteps
                    /\ retErr' = Err("conflict", DefaultRetrySteps))]_vars

\* C20 witness: two conflicts, then a re-fetch of the current version, then
\* the third attempt lands on top of the re-fetched version.
C20_Witness ==
    /\ pc = "done"
    /\ retErr = Nil
    /\ Len(log) = 3
    /\ log[1] = "conflict" /\ log[2] = "conflict" /\ log[3] = "ok"
    /\ nGets = 2
    /\ updated # NoObj
    /\ store.rv = updated.rv + 1

====
